---- MODULE Spec2Model ----
(***************************************************************************)
(* Model of the Enphase Envoy client (EnvoyClient) and of the update       *)
(* coordinator that drives it.  One session, one caller at a time.  Every  *)
(* action is the code that runs between two awaits: it consumes the        *)
(* response of the request the session is waiting for and runs up to the   *)
(* next request (or to the end of the call).  The Home Assistant glue that *)
(* calls the client (switch entity, config flow, entry setup and unload)   *)
(* is modelled the same way; each has a specification of its own.          *)
(***************************************************************************)
EXTENDS Integers, Sequences, FiniteSets, TLC

VARIABLES
    session,        \* self._session: "none" or "open"
    jwt_token,      \* self.jwt_token: "None" or the cached token
    serial_number,  \* self.serial_number: "None" or the serial
    pc,             \* the await the running call is suspended at, or "idle"
    callers,        \* the functions awaiting the running one, outermost first
    op,             \* the outermost call in progress, "none" when idle
    enabled,        \* argument of the set_production_power call in progress
    token,          \* local `token` of _get_jwt_token / _validate_jwt_token
    reqs,           \* requests issued by the outermost call, with their responses
    last,           \* how the last outermost call ended
    authResult,     \* how the last authenticate() of this outermost call ended
    tokenAtStart,   \* jwt_token when the outermost call started
    sessionAtStart, \* session when the outermost call started
    cycles,         \* update cycles started on the coordinator
    authByCycles,   \* authenticate() calls made by update cycles
    serialAtStart,  \* serial_number when the outermost call started
    created,        \* transport connections created so far
    closed,         \* calls of the transport connection's close() so far
    tokenBody,      \* body of the token-exchange answer of this outermost call
    telemetry,      \* body of the telemetry answer of this outermost call
    forcedOff,      \* the device's power-forced-off flag, set by an accepted PUT
    stored,         \* hass.data[DOMAIN] holds a coordinator for the entry
    platforms,      \* the entry's platforms (the switch) are set up
    data,           \* coordinator.data: the snapshot of the last good cycle
    tasks,          \* calls running concurrently on the session, one per task
    closes          \* per connection created, the calls of its close()

vars == <<session, jwt_token, serial_number, pc, callers, op, enabled, token,
          reqs, last, authResult, tokenAtStart, sessionAtStart, cycles,
          authByCycles, serialAtStart, created, closed, tokenBody, telemetry,
          forcedOff, stored, platforms, data, tasks, closes>>

-----------------------------------------------------------------------------
(* Bounds and value sets *)

MaxCycles == 3

\* connections one session may create over its life
MaxConns == 2

\* entries of the "production" list of a telemetry body
MaxEntries == 2

\* calls that run concurrently on one session
MaxTasks == 2

None == "None"

\* Python truthiness of an optional string
Truthy(x) == x \notin {None, ""}

\* Python `a or b`
PyOr(a, b) == IF Truthy(a) THEN a ELSE b

CtorSerials == {None, "111"}
DeviceSerials == {None, "222"}
AccessTokens == {None, "", "tok1"}
FallbackTokens == {None, "tok2"}
AuthCodes == {None, "", "abc123"}
CheckBodies == {"Valid token", "<!DOCTYPE html>", "other"}
TransportErrors == {"ClientConnectorError", "TimeoutError"}

InfoStatuses == {200, 404}
LoginStatuses == {302, 200, 401}
TokenStatuses == {200, 400}
CheckStatuses == {200, 401}
TelemetryStatuses == {200, 401, 500}
ControlStatuses == {200, 201, 204, 401, 500}

WattValues == {-5, 0, 5000}

\* one entry of the "production" list: has = FALSE when it has no wNow
Entries == {[has |-> FALSE, wNow |-> 0]}
           \cup {[has |-> TRUE, wNow |-> w] : w \in WattValues}

ProductionLists == UNION {[1..n -> Entries] : n \in 0..MaxEntries}

\* a telemetry body: not JSON, JSON without "production", or JSON with the list
NoTelemetry == [parse |-> FALSE, present |-> FALSE, production |-> <<>>]

Telemetry == {NoTelemetry}
             \cup {[parse |-> TRUE, present |-> FALSE, production |-> <<>>]}
             \cup {[parse |-> TRUE, present |-> TRUE, production |-> p] :
                       p \in ProductionLists}

\* the two token fields of a parsed token-exchange body
NoTokenBody == [access_token |-> None, token |-> None, some |-> FALSE]

-----------------------------------------------------------------------------
(* Errors, results and the request log *)

\* the text of an error response, and the text of an error without excerpt
ErrorText == <<"E", "r", "r", "o", "r">>

NoText == <<>>

\* response_text[:100] of the token-exchange error
ExcerptCut == 100

\* Python `text[:n]`
Excerpt(text, n) == SubSeq(text, 1, IF Len(text) < n THEN Len(text) ELSE n)

Err(type, msg, status, cause) ==
    [type |-> type, msg |-> msg, status |-> status, cause |-> cause,
     excerpt |-> NoText]

\* an error whose message ends with an excerpt of the response text
WithExcerpt(err, text) == [err EXCEPT !.excerpt = text]

NoErr == Err("", "", 0, "")

NoValue == [is_producing |-> FALSE, current_power |-> 0,
            production_enabled |-> FALSE, some |-> FALSE]

Request(ep, bearer, arr) ==
    [ep |-> ep, bearer |-> bearer, arr |-> arr, status |-> 0, note |-> ""]

\* the response to the request the call is waiting for is recorded in its entry
Answered(log, status, note) ==
    [log EXCEPT ![Len(log)] = [@ EXCEPT !.status = status, !.note = note]]

Front(s) == SubSeq(s, 1, Len(s) - 1)

LastOf(s) == s[Len(s)]

Idle == pc = "idle"

Tasks == 1..MaxTasks

\* a task that runs no call
NoTask == [fn |-> "none", pc |-> "idle", token |-> None, made |-> FALSE]

-----------------------------------------------------------------------------
(* Responses the endpoints can give; status -1 is a transport-level error *)

Failed == {[exc |-> e, status |-> -1] : e \in TransportErrors}

InfoResponses ==
    {[exc |-> f.exc, status |-> -1, sn |-> None] : f \in Failed}
    \cup [exc : {"none"}, status : InfoStatuses, sn : DeviceSerials]

LoginResponses ==
    {[exc |-> f.exc, status |-> -1, code |-> None] : f \in Failed}
    \cup [exc : {"none"}, status : LoginStatuses, code : AuthCodes]

TokenResponses ==
    {[exc |-> f.exc, status |-> -1, parse |-> FALSE,
      access_token |-> None, token |-> None] : f \in Failed}
    \cup [exc : {"none"}, status : TokenStatuses, parse : BOOLEAN,
          access_token : AccessTokens, token : FallbackTokens]

CheckResponses ==
    {[exc |-> f.exc, status |-> -1, body |-> "other"] : f \in Failed}
    \cup [exc : {"none"}, status : CheckStatuses, body : CheckBodies]

TelemetryResponses ==
    {[exc |-> f.exc, status |-> -1,
      body |-> NoTelemetry] : f \in Failed}
    \cup [exc : {"none"}, status : {200}, body : Telemetry]
    \cup [exc : {"none"}, status : TelemetryStatuses \ {200}, body : {NoTelemetry}]

ControlResponses ==
    Failed \cup [exc : {"none"}, status : ControlStatuses]

-----------------------------------------------------------------------------
(* How a call ends or suspends.  Each of these sets pc, callers, op, reqs    *)
(* and last.                                                               *)

\* _async_update_data wraps every error in UpdateFailed, keeping its text
UpdateFailed(err) ==
    WithExcerpt(Err("UpdateFailed", "Error communicating with API", err.status,
                    err.msg), err.excerpt)

\* validate_input: `raise CannotConnect from err`
CannotConnect(err) == Err("CannotConnect", "", 0, err.msg)

\* variant: no caller wraps the error of its callee
CatchPassThrough(frame, err) == err

\* what one awaiting caller does with an error raised by its callee
Catch(frame, err) ==
    IF frame = "update" THEN UpdateFailed(err)
    ELSE IF frame = "validate_input" THEN CannotConnect(err)
    ELSE err

RECURSIVE Unwind(_, _)
Unwind(err, cs) ==
    IF cs = <<>> THEN err ELSE Unwind(Catch(LastOf(cs), err), Front(cs))

Done(o, outcome, err, value, log) ==
    /\ pc' = "idle"
    /\ callers' = <<>>
    /\ op' = "none"
    /\ reqs' = log
    /\ last' = [op |-> o, outcome |-> outcome, err |-> err, value |-> value]

Raises(o, cs, err, log) == Done(o, "raised", Unwind(err, cs), NoValue, log)

\* a call in progress has no outcome yet
NoLast == [op |-> "none", outcome |-> "none", err |-> NoErr, value |-> NoValue]

Suspend(o, cs, at, log) ==
    /\ pc' = at
    /\ callers' = cs
    /\ op' = o
    /\ reqs' = log
    /\ last' = NoLast

\* the outcome of a try block while its `finally` runs
Pending(outcome, err, value) ==
    [outcome |-> outcome, err |-> err, value |-> value]

\* validate_input: the dict it returns
ValidatedInfo == [title |-> "Enphase Envoy (host)"]

\* variant: the broad except clause comes first
ErrorKeyBroadFirst(err) == "unknown"

\* async_step_user: the except clauses around validate_input
ErrorKey(err) ==
    IF err.type = "CannotConnect" THEN "cannot_connect" ELSE "unknown"

\* async_step_user: what it returns after validate_input ended
FlowResult(pending) ==
    IF pending.outcome = "raised"
    THEN [type |-> "form", errors |-> ErrorKey(pending.err)]
    ELSE [type |-> "create_entry", errors |-> ""]

\* the running function was called by validate_input
InValidate(cs) == cs # <<>> /\ LastOf(cs) = "validate_input"

\* validate_input ends with the pending outcome, to its caller if it has one
ValidateEnds(o, cs, pending, log) ==
    IF Front(cs) = <<>>
    THEN Done(o, pending.outcome, pending.err, pending.value, log)
    ELSE Done(o, "returned", NoErr, FlowResult(pending), log)

\* validate_input's `finally: await client.close()` up to the await of the
\* connection's close; the pending outcome is kept meanwhile
Finally(o, cs, pending, log) ==
    IF session # "none"
    THEN /\ closed' = closed + 1
         /\ pc' = "await_close"
         /\ callers' = cs
         /\ op' = o
         /\ reqs' = log
         /\ last' = [op |-> "none", outcome |-> pending.outcome,
                     err |-> pending.err, value |-> pending.value]
    ELSE /\ closed' = closed
         /\ ValidateEnds(o, cs, pending, log)

\* the except clauses of authenticate()
WrapAuth(exc) ==
    IF exc = "ClientConnectorError"
    THEN Err("Exception", "Cannot connect to Enphase servers", 0, exc)
    ELSE IF exc = "TimeoutError"
    THEN Err("Exception", "Request timed out", 0, exc)
    ELSE Err(exc, exc, 0, "")

SessionNotInitialized == Err("Exception", "Session not initialized", 0, "")

\* variant: the GET is sent without looking at the connection
SendStatusNoCheck(o, cs, sess, tok, log) ==
    Suspend(o, cs, "await_status",
            Append(log, Request("status", IF Truthy(tok) THEN tok ELSE None, -1)))

\* get_production_status up to its GET
SendStatus(o, cs, sess, tok, log) ==
    IF sess = "none"
    THEN Raises(o, cs, SessionNotInitialized, log)
    ELSE Suspend(o, cs, "await_status",
                 Append(log, Request("status", IF Truthy(tok) THEN tok ELSE None, -1)))

\* variant: the payload carries `enabled` instead of its inverse
SendPowerSendsEnabled(o, cs, sess, tok, en, log) ==
    IF sess = "none"
    THEN Raises(o, cs, SessionNotInitialized, log)
    ELSE Suspend(o, cs, "await_power",
                 Append(log, Request("power", tok, IF en THEN 1 ELSE 0)))

\* set_production_power from the header construction up to its PUT
SendPower(o, cs, sess, tok, en, log) ==
    IF sess = "none"
    THEN Raises(o, cs, SessionNotInitialized, log)
    ELSE Suspend(o, cs, "await_power",
                 Append(log, Request("power", tok, IF en THEN 0 ELSE 1)))

\* variant: the switch does not ask for a refresh
PowerReturnsSkipsRefresh(o, cs, log) ==
    Done(o, "returned", NoErr, NoValue, log)

\* set_production_power returned: the switch asks the coordinator for a
\* refresh, a direct caller is done
PowerReturns(o, cs, log) ==
    IF cs = <<>>
    THEN Done(o, "returned", NoErr, NoValue, log)
    ELSE Suspend(o, cs, "await_refresh", Append(log, Request("refresh", None, -1)))

\* variant: the entry's coordinator is not stored
StatusReturnsSkipsStore(o, cs, value, log) ==
    /\ stored' = stored
    /\ data' = IF cs # <<>> /\ LastOf(cs) = "update" THEN value ELSE data
    /\ IF cs # <<>> /\ cs[1] = "async_setup_entry"
       THEN Suspend(o, <<"async_setup_entry">>, "await_forward",
                    Append(log, Request("forward_entry_setups", None, -1)))
       ELSE Done(o, "returned", NoErr, value, log)

\* get_production_status returned its snapshot.  Returned by an update
\* cycle it becomes coordinator.data; async_setup_entry then stores the
\* coordinator and forwards the platform setup, any other caller is done
StatusReturns(o, cs, value, log) ==
    /\ data' = IF cs # <<>> /\ LastOf(cs) = "update" THEN value ELSE data
    /\ IF cs # <<>> /\ cs[1] = "async_setup_entry"
       THEN /\ stored' = TRUE
            /\ Suspend(o, <<"async_setup_entry">>, "await_forward",
                       Append(log, Request("forward_entry_setups", None, -1)))
       ELSE /\ stored' = stored
            /\ Done(o, "returned", NoErr, value, log)

\* variant: the error does not name the status
StatusErrorNoStatus(status) ==
    Err("Exception", "Failed to get production status", 0, "")

\* get_production_status: the error raised on a non-200 answer
StatusError(status) ==
    Err("Exception", "Failed to get production status", status, "")

\* authenticate() returned normally: its caller goes on
AuthReturns(o, cs, sess, tok, en, log) ==
    IF cs = <<>>
    THEN Done(o, "returned", NoErr, NoValue, log)
    ELSE IF LastOf(cs) = "set_production_power"
    THEN SendPower(o, Front(cs), sess, tok, en, log)
    ELSE SendStatus(o, cs, sess, tok, log)

\* authenticate() from the OAuth parameters up to the login POST
SendLogin(o, cs, log) ==
    Suspend(o, cs, "await_login", Append(log, Request("login", None, -1)))

\* variant: a connection is created on every call
NeedsSessionAlways(sess) == TRUE

\* authenticate: `if self._session is None`
NeedsSession(sess) == sess = "none"

\* variant: the device-info document is fetched on every call
AuthEnterOnAlwaysInfo(o, cs, log, sess, serial, n) ==
    /\ NeedsSession(sess) => n < MaxConns
    /\ session' = "open"
    /\ created' = IF NeedsSession(sess) THEN n + 1 ELSE n
    /\ authResult' = "running"
    /\ Suspend(o, cs, "await_info", Append(log, Request("info", None, -1)))

\* authenticate() from its first line up to its first request, on a client
\* whose connection is sess, whose serial is serial and which created n
\* connections so far
AuthEnterOn(o, cs, log, sess, serial, n) ==
    /\ NeedsSession(sess) => n < MaxConns
    /\ session' = "open"
    /\ created' = IF NeedsSession(sess) THEN n + 1 ELSE n
    /\ authResult' = "running"
    /\ IF ~Truthy(serial)
       THEN Suspend(o, cs, "await_info", Append(log, Request("info", None, -1)))
       ELSE SendLogin(o, cs, log)

\* authenticate() on the client at hand
AuthEnter(o, cs, log) ==
    AuthEnterOn(o, cs, log, session, serial_number, created)

\* bookkeeping at the start of an outermost call on a client holding tok,
\* sess and serial
BeginOn(tok, sess, serial) ==
    /\ Idle
    /\ tokenAtStart' = tok
    /\ sessionAtStart' = sess
    /\ serialAtStart' = serial
    /\ tokenBody' = NoTokenBody
    /\ telemetry' = NoTelemetry
    /\ UNCHANGED <<forcedOff, stored, platforms, tasks, closes>>

\* bookkeeping at the start of an outermost call on the client at hand
Begin ==
    /\ BeginOn(jwt_token, session, serial_number)
    /\ UNCHANGED data

\* EnvoyClient(host, username, password) followed by the first
\* authenticate() of the new client: no connection, token or serial yet
NewClient(o, cs) ==
    /\ BeginOn(None, "none", None)
    /\ jwt_token' = None
    /\ serial_number' = None
    /\ closed' = 0
    /\ AuthEnterOn(o, cs, <<>>, "none", None, 0)

-----------------------------------------------------------------------------
(* Decisions the code takes on a response *)

\* variant: the pattern match is not checked
SerialFoundAnyBody(r) == r.status = 200

\* _get_serial_number: 200 and <sn>(\d+)</sn> matched
SerialFound(r) == r.status = 200 /\ r.sn # None

\* variant: any redirect is taken to carry a code
LoginAcceptedAnyRedirect(r) == r.status = 302

\* authenticate: 302 and parse_qs(Location) has a (non-blank) `code`
LoginAccepted(r) == r.status = 302 /\ Truthy(r.code)

\* variant: the fallback field is preferred
TokenOfFallbackFirst(r) == PyOr(r.token, r.access_token)

\* _get_jwt_token: data.get("access_token") or data.get("token")
TokenOf(r) == PyOr(r.access_token, r.token)

\* _validate_jwt_token: 200 and "Valid token" or "<!DOCTYPE html>" in the body
TokenValid(r) ==
    r.status = 200 /\ r.body \in {"Valid token", "<!DOCTYPE html>"}

\* variant: the test on the cached token is inverted
NeedsAuthInverted(tok) == Truthy(tok)

\* set_production_power: `if not self.jwt_token`
NeedsAuth(tok) == ~Truthy(tok)

\* variant: only 200 counts as success
ControlOkOnly200(status) == status = 200

\* set_production_power: `response.status not in [200, 201, 204]`
ControlOk(status) == status \in {200, 201, 204}

\* variant: the last entry of the list is read
SnapshotLastEntry(body) ==
    LET production_array == IF body.present THEN body.production
                            ELSE <<[has |-> FALSE, wNow |-> 0]>>
        production == IF production_array # <<>>
                      THEN production_array[Len(production_array)]
                      ELSE [has |-> FALSE, wNow |-> 0]
        current_power == IF production.has THEN production.wNow ELSE 0
    IN  [is_producing |-> current_power > 0,
         current_power |-> current_power,
         production_enabled |-> TRUE,
         some |-> TRUE]

\* variant: production_enabled follows the device's flag
SnapshotReportsDevice(body) ==
    LET production_array == IF body.present THEN body.production
                            ELSE <<[has |-> FALSE, wNow |-> 0]>>
        production == IF production_array # <<>> THEN production_array[1]
                      ELSE [has |-> FALSE, wNow |-> 0]
        current_power == IF production.has THEN production.wNow ELSE 0
    IN  [is_producing |-> current_power > 0,
         current_power |-> current_power,
         production_enabled |-> ~forcedOff,
         some |-> TRUE]

\* get_production_status: the snapshot built from a parsed 200 body
Snapshot(body) ==
    LET production_array == IF body.present THEN body.production
                            ELSE <<[has |-> FALSE, wNow |-> 0]>>
        production == IF production_array # <<>> THEN production_array[1]
                      ELSE [has |-> FALSE, wNow |-> 0]
        current_power == IF production.has THEN production.wNow ELSE 0
    IN  [is_producing |-> current_power > 0,
         current_power |-> current_power,
         production_enabled |-> TRUE,
         some |-> TRUE]

-----------------------------------------------------------------------------
(* Initial state: a freshly constructed EnvoyClient and coordinator *)

Init ==
    /\ session = "none"
    /\ jwt_token = None
    /\ serial_number \in CtorSerials
    /\ pc = "idle"
    /\ callers = <<>>
    /\ op = "none"
    /\ enabled = FALSE
    /\ token = None
    /\ reqs = <<>>
    /\ last = NoLast
    /\ authResult = "none"
    /\ tokenAtStart = None
    /\ sessionAtStart = "none"
    /\ cycles = 0
    /\ authByCycles = 0
    /\ serialAtStart = None
    /\ created = 0
    /\ closed = 0
    /\ tokenBody = NoTokenBody
    /\ telemetry = NoTelemetry
    /\ forcedOff = FALSE
    /\ stored = FALSE
    /\ platforms = FALSE
    /\ data = NoValue
    /\ tasks = [t \in Tasks |-> NoTask]
    /\ closes = <<>>

-----------------------------------------------------------------------------
(* Outermost calls *)

\* variant: authenticate() drops the cached token before it logs in
AuthenticateClearsToken ==
    /\ Begin
    /\ jwt_token' = None
    /\ AuthEnter("authenticate", <<>>, <<>>)
    /\ UNCHANGED <<serial_number, enabled, token, cycles, authByCycles, closed>>

\* EnvoyClient.authenticate() called directly
Authenticate ==
    /\ Begin
    /\ AuthEnter("authenticate", <<>>, <<>>)
    /\ UNCHANGED <<jwt_token, serial_number, enabled, token, cycles, authByCycles,
                   closed>>

\* variant: get_production_status authenticates first when no token is cached
GetProductionStatusLazy ==
    /\ Begin
    /\ IF NeedsAuth(jwt_token)
       THEN AuthEnter("get_production_status", <<"get_production_status">>, <<>>)
       ELSE /\ authResult' = "none"
            /\ SendStatus("get_production_status", <<>>, session, jwt_token, <<>>)
            /\ UNCHANGED <<session, created>>
    /\ UNCHANGED <<jwt_token, serial_number, enabled, token, cycles, authByCycles,
                   closed>>

\* variant: get_production_status authenticates first on every call
GetProductionStatusReauth ==
    /\ Begin
    /\ AuthEnter("get_production_status", <<"get_production_status">>, <<>>)
    /\ UNCHANGED <<jwt_token, serial_number, enabled, token, cycles, authByCycles,
                   closed>>

\* EnvoyClient.get_production_status() called directly
GetProductionStatus ==
    /\ Begin
    /\ authResult' = "none"
    /\ SendStatus("get_production_status", <<>>, session, jwt_token, <<>>)
    /\ UNCHANGED <<session, jwt_token, serial_number, enabled, token, cycles,
                   authByCycles, created, closed>>

\* EnvoyClient.set_production_power(en) called directly
SetProductionPower(en) ==
    /\ Begin
    /\ enabled' = en
    /\ IF NeedsAuth(jwt_token)
       THEN AuthEnter("set_production_power", <<"set_production_power">>, <<>>)
       ELSE /\ authResult' = "none"
            /\ SendPower("set_production_power", <<>>, session, jwt_token, en, <<>>)
            /\ UNCHANGED <<session, created>>
    /\ UNCHANGED <<jwt_token, serial_number, token, cycles, authByCycles, closed>>

\* EnvoyClient.close() up to the await of the connection's close
Close ==
    /\ Begin
    /\ authResult' = "none"
    /\ IF session # "none"
       THEN /\ closed' = closed + 1
            /\ Suspend("close", <<>>, "await_close", <<>>)
       ELSE /\ UNCHANGED closed
            /\ Done("close", "returned", NoErr, NoValue, <<>>)
    /\ UNCHANGED <<session, jwt_token, serial_number, enabled, token, cycles,
                   authByCycles, created>>

\* variant: the session keeps the closed connection
CloseDoneKeepsSession ==
    /\ pc = "await_close"
    /\ Done(op, "returned", NoErr, NoValue, reqs)
    /\ UNCHANGED <<session, jwt_token, serial_number, enabled, token, authResult,
                   tokenAtStart, sessionAtStart, cycles, authByCycles,
                   serialAtStart, created, closed, tokenBody, telemetry,
                   forcedOff, stored, platforms, data, tasks,
                   closes>>

\* variant: closing the session forgets the token
CloseDoneClearsToken ==
    /\ pc = "await_close"
    /\ session' = "none"
    /\ jwt_token' = None
    /\ Done(op, "returned", NoErr, NoValue, reqs)
    /\ UNCHANGED <<serial_number, enabled, token, authResult,
                   tokenAtStart, sessionAtStart, cycles, authByCycles,
                   serialAtStart, created, closed, tokenBody, telemetry,
                   forcedOff, stored, platforms, data, tasks,
                   closes>>

\* EnvoyClient.close() after the connection's close returned; a close()
\* called from validate_input's `finally` lets the pending outcome through
CloseDone ==
    /\ pc = "await_close"
    /\ session' = "none"
    /\ IF callers = <<>>
       THEN Done(op, "returned", NoErr, NoValue, reqs)
       ELSE ValidateEnds(op, callers, last, reqs)
    /\ UNCHANGED <<jwt_token, serial_number, enabled, token, authResult,
                   tokenAtStart, sessionAtStart, cycles, authByCycles,
                   serialAtStart, created, closed, tokenBody, telemetry,
                   forcedOff, stored, platforms, data, tasks,
                   closes>>

\* variant: the cycle authenticates on the first cycle only
UpdateCycleAuthOnce ==
    /\ Begin
    /\ cycles < MaxCycles
    /\ cycles' = cycles + 1
    /\ IF cycles = 0
       THEN /\ authByCycles' = authByCycles + 1
            /\ AuthEnter("update", <<"update">>, <<>>)
       ELSE /\ authResult' = "none"
            /\ SendStatus("update", <<"update">>, session, jwt_token, <<>>)
            /\ UNCHANGED <<session, authByCycles, created>>
    /\ UNCHANGED <<jwt_token, serial_number, enabled, token, closed>>

\* variant: after a failed call the cycle fails without trying again
UpdateCycleCircuitBreaker ==
    /\ Begin
    /\ cycles < MaxCycles
    /\ cycles' = cycles + 1
    /\ authByCycles' = authByCycles + 1
    /\ IF last.outcome = "raised"
       THEN /\ authResult' = "raised"
            /\ Raises("update", <<"update">>,
                      Err("Exception", "Circuit open", 0, ""), <<>>)
            /\ UNCHANGED <<session, created>>
       ELSE AuthEnter("update", <<"update">>, <<>>)
    /\ UNCHANGED <<jwt_token, serial_number, enabled, token, closed>>

\* EnphaseDataUpdateCoordinator._async_update_data() up to its first request
UpdateCycle ==
    /\ Begin
    /\ cycles < MaxCycles
    /\ cycles' = cycles + 1
    /\ authByCycles' = authByCycles + 1
    /\ AuthEnter("update", <<"update">>, <<>>)
    /\ UNCHANGED <<jwt_token, serial_number, enabled, token, closed>>

-----------------------------------------------------------------------------
(* The steps of a call in progress: one per awaited response *)

\* what no response handler of the client changes
started == <<tokenAtStart, sessionAtStart, cycles, authByCycles, enabled,
            serialAtStart, created, platforms, tasks, closes>>

\* variant: validate_input closes the client on the success path only
AuthFailsSkipsClose(err, log) ==
    /\ authResult' = "raised"
    /\ closed' = closed
    /\ IF InValidate(callers)
       THEN ValidateEnds(op, callers,
                         Pending("raised", Catch("validate_input", err), NoValue),
                         log)
       ELSE Raises(op, callers, err, log)

\* authenticate() raises err to its caller
AuthFails(err, log) ==
    /\ authResult' = "raised"
    /\ IF InValidate(callers)
       THEN Finally(op, callers,
                    Pending("raised", Catch("validate_input", err), NoValue), log)
       ELSE /\ closed' = closed
            /\ Raises(op, callers, err, log)

\* authenticate() returns normally to its caller, the session holding tok
AuthEnds(tok, log) ==
    /\ authResult' = "returned"
    /\ IF InValidate(callers)
       THEN Finally(op, callers, Pending("returned", NoErr, ValidatedInfo), log)
       ELSE /\ closed' = closed
            /\ AuthReturns(op, callers, session, tok, enabled, log)

\* _get_serial_number gets the answer to GET /info.xml
InfoResponse ==
    /\ pc = "await_info"
    /\ \E r \in InfoResponses :
         LET log == Answered(reqs, r.status, r.sn) IN
         IF r.exc # "none"
         THEN AuthFails(WrapAuth(r.exc), log) /\ UNCHANGED serial_number
         ELSE IF SerialFound(r)
         THEN /\ serial_number' = r.sn
              /\ SendLogin(op, callers, log)
              /\ UNCHANGED <<authResult, closed>>
         ELSE /\ AuthFails(IF r.status = 200
                           THEN Err("Exception", "Serial number not found", 0, "")
                           ELSE Err("Exception", "Failed to get serial number",
                                    r.status, ""), log)
              /\ UNCHANGED serial_number
    /\ UNCHANGED <<session, jwt_token, token, started, tokenBody, telemetry,
                   forcedOff, stored, data>>

\* authenticate gets the answer to the login POST
LoginResponse ==
    /\ pc = "await_login"
    /\ \E r \in LoginResponses :
         LET log == Answered(reqs, r.status, r.code) IN
         IF r.exc # "none"
         THEN AuthFails(WrapAuth(r.exc), log)
         ELSE IF LoginAccepted(r)
         THEN IF session = "none"
              THEN AuthEnds(jwt_token, log)
              ELSE /\ Suspend(op, callers, "await_token",
                              Append(log, Request("token", None, -1)))
                   /\ UNCHANGED <<authResult, closed>>
         ELSE AuthFails(IF r.status = 302
                        THEN Err("Exception",
                                 "Authorization code not found in redirect", 0, "")
                        ELSE IF r.status # 200
                        THEN Err("Exception", "Authentication failed", r.status, "")
                        ELSE Err("Exception", "Unexpected response", r.status, ""),
                        log)
    /\ UNCHANGED <<session, jwt_token, serial_number, token, started, tokenBody,
                   telemetry, forcedOff, stored, data>>

\* _get_jwt_token gets the answer to the token-exchange POST
TokenResponse ==
    /\ pc = "await_token"
    /\ \E r \in TokenResponses :
         LET t == IF r.parse THEN TokenOf(r) ELSE None
             log == Answered(reqs, r.status,
                             IF r.status = 200 /\ ~r.parse THEN "unparseable" ELSE t)
         IN
         /\ tokenBody' = IF r.exc = "none" /\ r.status = 200 /\ r.parse
                         THEN [access_token |-> r.access_token,
                               token |-> r.token, some |-> TRUE]
                         ELSE tokenBody
         /\ IF r.exc # "none"
            THEN AuthFails(WrapAuth(r.exc), log) /\ UNCHANGED token
            ELSE IF r.status = 200
            THEN IF r.parse /\ Truthy(t)
                 THEN /\ token' = t
                      /\ Suspend(op, callers, "await_check",
                                 Append(log, Request("check", t, -1)))
                      /\ UNCHANGED <<authResult, closed>>
                 ELSE AuthEnds(jwt_token, log) /\ UNCHANGED token
            ELSE /\ AuthFails(WithExcerpt(Err("Exception",
                                              "JWT token exchange failed",
                                              r.status, ""),
                                          Excerpt(ErrorText, ExcerptCut)), log)
                 /\ UNCHANGED token
    /\ UNCHANGED <<session, jwt_token, serial_number, started, telemetry,
                   forcedOff, stored, data>>

\* _validate_jwt_token gets the answer to the token-check POST; whatever it
\* raises is caught by the `except Exception` of _get_jwt_token
CheckResponse ==
    /\ pc = "await_check"
    /\ \E r \in CheckResponses :
         LET log == Answered(reqs, r.status, r.body)
             tok == IF r.exc = "none" /\ TokenValid(r) THEN token ELSE jwt_token
         IN
         /\ jwt_token' = tok
         /\ AuthEnds(tok, log)
    /\ token' = None
    /\ UNCHANGED <<session, serial_number, started, tokenBody, telemetry,
                   forcedOff, stored, data>>

\* variant: a 401 answer makes the GET be sent once more
StatusResponseRetries ==
    /\ pc = "await_status"
    /\ \E r \in TelemetryResponses :
         LET log == Answered(reqs, r.status,
                             IF r.body.parse THEN "json" ELSE "unparseable") IN
         /\ telemetry' = IF r.exc = "none" THEN r.body ELSE telemetry
         /\ IF r.exc # "none"
            THEN /\ Raises(op, callers, Err(r.exc, r.exc, 0, ""), log)
                 /\ UNCHANGED <<stored, data>>
            ELSE IF r.status = 200
            THEN IF r.body.parse
                 THEN StatusReturns(op, callers, Snapshot(r.body), log)
                 ELSE /\ Raises(op, callers,
                                Err("ContentTypeError", "json", 0, ""), log)
                      /\ UNCHANGED <<stored, data>>
            ELSE IF r.status = 401
                    /\ Cardinality({i \in 1..Len(reqs) : reqs[i].ep = "status"}) = 1
            THEN /\ Suspend(op, callers, "await_status",
                            Append(log, Request("status", LastOf(reqs).bearer, -1)))
                 /\ UNCHANGED <<stored, data>>
            ELSE /\ Raises(op, callers, StatusError(r.status), log)
                 /\ UNCHANGED <<stored, data>>
    /\ UNCHANGED <<session, jwt_token, serial_number, token, authResult, started,
                   closed, tokenBody, telemetry, forcedOff>>

\* get_production_status gets the answer to the telemetry GET
StatusResponse ==
    /\ pc = "await_status"
    /\ \E r \in TelemetryResponses :
         LET log == Answered(reqs, r.status,
                             IF r.body.parse THEN "json" ELSE "unparseable") IN
         /\ telemetry' = IF r.exc = "none" THEN r.body ELSE telemetry
         /\ IF r.exc # "none"
            THEN /\ Raises(op, callers, Err(r.exc, r.exc, 0, ""), log)
                 /\ UNCHANGED <<stored, data>>
            ELSE IF r.status = 200
            THEN IF r.body.parse
                 THEN StatusReturns(op, callers, Snapshot(r.body), log)
                 ELSE /\ Raises(op, callers,
                                Err("ContentTypeError", "json", 0, ""), log)
                      /\ UNCHANGED <<stored, data>>
            ELSE /\ Raises(op, callers, StatusError(r.status), log)
                 /\ UNCHANGED <<stored, data>>
    /\ UNCHANGED <<session, jwt_token, serial_number, token, authResult, started,
                   closed, tokenBody, forcedOff>>

\* set_production_power gets the answer to the control PUT
PowerResponse ==
    /\ pc = "await_power"
    /\ \E r \in ControlResponses :
         LET log == Answered(reqs, r.status, "") IN
         \* the device takes over the flag of a PUT it answers with 2xx
         /\ forcedOff' = IF r.exc = "none" /\ r.status \in {200, 201, 204}
                         THEN LastOf(reqs).arr = 1
                         ELSE forcedOff
         /\ IF r.exc # "none"
            THEN Raises(op, callers, Err(r.exc, r.exc, 0, ""), log)
            ELSE IF ControlOk(r.status)
            THEN PowerReturns(op, callers, log)
            ELSE Raises(op, callers,
                        Err("Exception", "Failed to set production power",
                            r.status, ""), log)
    /\ UNCHANGED <<session, jwt_token, serial_number, token, authResult, started,
                   closed, tokenBody, telemetry, stored, data>>

Next ==
    \/ Authenticate
    \/ GetProductionStatus
    \/ \E en \in BOOLEAN : SetProductionPower(en)
    \/ Close
    \/ CloseDone
    \/ UpdateCycle
    \/ InfoResponse
    \/ LoginResponse
    \/ TokenResponse
    \/ CheckResponse
    \/ StatusResponse
    \/ PowerResponse

Spec == Init /\ [][Next]_vars

-----------------------------------------------------------------------------
(* The switch entity: async_turn_on / async_turn_off on the coordinator's   *)
(* client.  The refresh it asks for is the scheduler's business: it either *)
(* returns or raises.                                                      *)

\* dict.get(key, default)
Get(d, key, default) == IF key \in DOMAIN d THEN d[key] ELSE default

\* variant: the switch reports whether the panels produce right now
is_onFromPower ==
    IF data = NoValue THEN FALSE ELSE Get(data, "is_producing", FALSE)

\* EnphaseProductionSwitch.is_on; coordinator.data is None before the first
\* good cycle
is_on ==
    IF data = NoValue THEN FALSE ELSE Get(data, "production_enabled", FALSE)

\* async_turn_on / async_turn_off up to the first request of
\* set_production_power(en)
Turn(o, en) ==
    /\ Begin
    /\ enabled' = en
    /\ IF NeedsAuth(jwt_token)
       THEN AuthEnter(o, <<o, "set_production_power">>, <<>>)
       ELSE /\ authResult' = "none"
            /\ SendPower(o, <<o>>, session, jwt_token, en, <<>>)
            /\ UNCHANGED <<session, created>>
    /\ UNCHANGED <<jwt_token, serial_number, token, cycles, authByCycles, closed>>

\* EnphaseProductionSwitch.async_turn_on
AsyncTurnOn ==
    /\ Idle
    /\ Turn("async_turn_on", TRUE)

\* EnphaseProductionSwitch.async_turn_off
AsyncTurnOff ==
    /\ Idle
    /\ Turn("async_turn_off", FALSE)

\* async_turn_on / async_turn_off after async_request_refresh ended
RefreshResponse ==
    /\ pc = "await_refresh"
    /\ \E raised \in BOOLEAN :
         IF raised
         THEN Raises(op, callers, Err("Exception", "Refresh failed", 0, ""),
                     Answered(reqs, -1, "raised"))
         ELSE Done(op, "returned", NoErr, NoValue, Answered(reqs, 1, "returned"))
    /\ UNCHANGED <<session, jwt_token, serial_number, token, authResult, started,
                   closed, tokenBody, telemetry, forcedOff, stored, data>>

NextSwitch ==
    \/ AsyncTurnOn
    \/ AsyncTurnOff
    \/ Close
    \/ CloseDone
    \/ InfoResponse
    \/ LoginResponse
    \/ TokenResponse
    \/ CheckResponse
    \/ PowerResponse
    \/ RefreshResponse

SpecSwitch == Init /\ [][NextSwitch]_vars

\* the switch together with the update cycles the scheduler runs on the
\* coordinator, among them the refresh a command asked for
NextPanel ==
    \/ AsyncTurnOn
    \/ AsyncTurnOff
    \/ UpdateCycle
    \/ InfoResponse
    \/ LoginResponse
    \/ TokenResponse
    \/ CheckResponse
    \/ PowerResponse
    \/ RefreshResponse
    \/ StatusResponse

SpecPanel == Init /\ [][NextPanel]_vars

-----------------------------------------------------------------------------
(* The config flow: every validation constructs a client of its own *)

\* validate_input up to the first request of authenticate()
ValidateInput ==
    /\ NewClient("validate_input", <<"validate_input">>)
    /\ UNCHANGED <<enabled, token, cycles, authByCycles, data>>

\* ConfigFlow.async_step_user: without input it shows the form, with input
\* it runs validate_input
AsyncStepUser ==
    \E given \in BOOLEAN :
        IF given
        THEN /\ NewClient("async_step_user", <<"async_step_user", "validate_input">>)
             /\ UNCHANGED <<enabled, token, cycles, authByCycles, data>>
        ELSE /\ Begin
             /\ authResult' = "none"
             /\ Done("async_step_user", "returned", NoErr,
                     [type |-> "form", errors |-> ""], <<>>)
             /\ UNCHANGED <<session, jwt_token, serial_number, enabled, token,
                            cycles, authByCycles, created, closed>>

NextConfig ==
    \/ ValidateInput
    \/ AsyncStepUser
    \/ InfoResponse
    \/ LoginResponse
    \/ TokenResponse
    \/ CheckResponse
    \/ CloseDone

SpecConfig == Init /\ [][NextConfig]_vars

-----------------------------------------------------------------------------
(* Setup and unload of the config entry.  async_setup_entry constructs the *)
(* coordinator and with it a client of its own; the first refresh is one   *)
(* update cycle, whose error the framework hands on to async_setup_entry.  *)

\* async_setup_entry up to the first request of the first refresh, called
\* for an entry that is not set up
AsyncSetupEntry ==
    /\ ~stored
    /\ ~platforms
    /\ cycles' = 1
    /\ authByCycles' = 1
    /\ data' = NoValue
    /\ NewClient("async_setup_entry", <<"async_setup_entry", "update">>)
    /\ UNCHANGED <<enabled, token>>

\* async_setup_entry after async_forward_entry_setups returned
ForwardResponse ==
    /\ pc = "await_forward"
    /\ platforms' = TRUE
    /\ Done(op, "returned", NoErr, [ok |-> TRUE], Answered(reqs, 1, "returned"))
    /\ UNCHANGED <<session, jwt_token, serial_number, enabled, token, authResult,
                   tokenAtStart, sessionAtStart, cycles, authByCycles,
                   serialAtStart, created, closed, tokenBody, telemetry,
                   forcedOff, stored, data, tasks, closes>>

\* the scheduler runs an update cycle of the stored coordinator
ScheduledUpdate == stored /\ UpdateCycle

\* async_unload_entry up to the await of async_unload_platforms
AsyncUnloadEntry ==
    /\ Begin
    /\ authResult' = "none"
    /\ Suspend("async_unload_entry", <<>>, "await_unload",
               <<Request("unload_platforms", None, -1)>>)
    /\ UNCHANGED <<session, jwt_token, serial_number, enabled, token, cycles,
                   authByCycles, created, closed>>

\* async_unload_entry after async_unload_platforms returned unload_ok
UnloadResponse ==
    /\ pc = "await_unload"
    /\ \E unload_ok \in BOOLEAN :
         LET log == Answered(reqs, 1, IF unload_ok THEN "True" ELSE "False") IN
         /\ platforms' = (platforms /\ ~unload_ok)
         /\ IF unload_ok
            THEN IF stored
                 THEN /\ stored' = FALSE
                      /\ Done(op, "returned", NoErr, [ok |-> TRUE], log)
                 ELSE /\ stored' = stored
                      /\ Raises(op, callers, Err("KeyError", "entry_id", 0, ""), log)
            ELSE /\ stored' = stored
                 /\ Done(op, "returned", NoErr, [ok |-> FALSE], log)
    /\ UNCHANGED <<session, jwt_token, serial_number, enabled, token, authResult,
                   tokenAtStart, sessionAtStart, cycles, authByCycles,
                   serialAtStart, created, closed, tokenBody, telemetry,
                   forcedOff, data, tasks, closes>>

NextEntry ==
    \/ AsyncSetupEntry
    \/ ForwardResponse
    \/ ScheduledUpdate
    \/ AsyncUnloadEntry
    \/ UnloadResponse
    \/ InfoResponse
    \/ LoginResponse
    \/ TokenResponse
    \/ CheckResponse
    \/ StatusResponse

SpecEntry == Init /\ [][NextEntry]_vars

-----------------------------------------------------------------------------
(* Calls that run concurrently on one session.  Each task runs one call at *)
(* a time; a task switch happens at an await only, so everything a call    *)
(* does between two awaits is one step.                                    *)

\* the state of the calls made one after the other, which no task touches
single == <<pc, callers, op, enabled, token, reqs, last, authResult,
            tokenAtStart, sessionAtStart, cycles, authByCycles, serialAtStart,
            tokenBody, telemetry, forcedOff, stored, platforms, data>>

\* the call of task t is at the await `at`
TaskAwaits(t, at) == tasks' = [tasks EXCEPT ![t] = [@ EXCEPT !.pc = at]]

\* the call of task t ended, by return or by raise
TaskEnds(t) == tasks' = [tasks EXCEPT ![t] = NoTask]

\* authenticate() of a task from its first line up to its first request:
\* the test of _session and the assignment run without an await in between
TaskAuthenticate ==
    \E t \in Tasks :
        /\ tasks[t] = NoTask
        /\ NeedsSession(session) => created < MaxConns
        /\ session' = "open"
        /\ created' = IF NeedsSession(session) THEN created + 1 ELSE created
        /\ closes' = IF NeedsSession(session) THEN Append(closes, 0) ELSE closes
        /\ tasks' = [tasks EXCEPT ![t] =
                        [fn |-> "authenticate",
                         pc |-> IF Truthy(serial_number)
                                THEN "await_login" ELSE "await_info",
                         token |-> None,
                         made |-> NeedsSession(session)]]
        /\ UNCHANGED <<jwt_token, serial_number, closed, single>>

\* a task's authenticate() gets the answer to the device-info GET; the login
\* POST that follows raises when another task has closed the session
TaskInfoResponse ==
    \E t \in Tasks :
        /\ tasks[t].pc = "await_info"
        /\ \E r \in InfoResponses :
             IF r.exc = "none" /\ SerialFound(r)
             THEN /\ serial_number' = r.sn
                  /\ IF session = "none"
                     THEN TaskEnds(t)
                     ELSE TaskAwaits(t, "await_login")
             ELSE /\ UNCHANGED serial_number
                  /\ TaskEnds(t)
        /\ UNCHANGED <<session, jwt_token, created, closed, closes, single>>

\* a task's authenticate() gets the answer to the login POST; _get_jwt_token
\* returns at once when another task has closed the session
TaskLoginResponse ==
    \E t \in Tasks :
        /\ tasks[t].pc = "await_login"
        /\ \E r \in LoginResponses :
             IF r.exc = "none" /\ LoginAccepted(r) /\ session # "none"
             THEN TaskAwaits(t, "await_token")
             ELSE TaskEnds(t)
        /\ UNCHANGED <<session, jwt_token, serial_number, created, closed,
                       closes, single>>

\* a task's _get_jwt_token gets the answer to the token exchange; the check
\* POST that follows fails when another task has closed the session
TaskTokenResponse ==
    \E t \in Tasks :
        /\ tasks[t].pc = "await_token"
        /\ \E r \in TokenResponses :
             IF /\ r.exc = "none"
                /\ r.status = 200
                /\ r.parse
                /\ Truthy(TokenOf(r))
                /\ session # "none"
             THEN tasks' = [tasks EXCEPT ![t] =
                              [@ EXCEPT !.pc = "await_check",
                                        !.token = TokenOf(r)]]
             ELSE TaskEnds(t)
        /\ UNCHANGED <<session, jwt_token, serial_number, created, closed,
                       closes, single>>

\* a task's _validate_jwt_token gets the answer to the token check
TaskCheckResponse ==
    \E t \in Tasks :
        /\ tasks[t].pc = "await_check"
        /\ \E r \in CheckResponses :
             jwt_token' = IF r.exc = "none" /\ TokenValid(r)
                          THEN tasks[t].token ELSE jwt_token
        /\ TaskEnds(t)
        /\ UNCHANGED <<session, serial_number, created, closed, closes, single>>

\* close() of a task up to the await of the connection's close()
TaskClose ==
    \E t \in Tasks :
        /\ tasks[t] = NoTask
        /\ IF session # "none"
           THEN /\ closes' = [closes EXCEPT ![Len(closes)] = @ + 1]
                /\ closed' = closed + 1
                /\ tasks' = [tasks EXCEPT ![t] =
                                [fn |-> "close", pc |-> "await_close",
                                 token |-> None, made |-> FALSE]]
           ELSE UNCHANGED <<closes, closed, tasks>>
        /\ UNCHANGED <<session, jwt_token, serial_number, created, single>>

\* close() of a task after the connection's close() returned
TaskCloseDone ==
    \E t \in Tasks :
        /\ tasks[t].pc = "await_close"
        /\ session' = "none"
        /\ TaskEnds(t)
        /\ UNCHANGED <<jwt_token, serial_number, created, closed, closes, single>>

NextTasks ==
    \/ TaskAuthenticate
    \/ TaskInfoResponse
    \/ TaskLoginResponse
    \/ TaskTokenResponse
    \/ TaskCheckResponse
    \/ TaskClose
    \/ TaskCloseDone

SpecTasks == Init /\ [][NextTasks]_vars

\* the steps of calls in progress
TaskProgress ==
    \/ TaskInfoResponse
    \/ TaskLoginResponse
    \/ TaskTokenResponse
    \/ TaskCheckResponse
    \/ TaskCloseDone

\* the event loop resumes every call in progress: each request is answered
\* or times out.  Nothing makes a caller start another call.
SpecTasksFair == SpecTasks /\ WF_vars(TaskProgress)

-----------------------------------------------------------------------------
(* Properties *)

AuthEndpoints == {"info", "login", "token", "check"}

AuthAwaits == {"await_info", "await_login", "await_token", "await_check"}

\* the outermost call o is in progress or has just ended
During(o) == op = o \/ (Idle /\ last.op = o)

Answer(i) == reqs[i].status # 0

Issued(ep) == \E i \in 1..Len(reqs) : reqs[i].ep = ep

\* C1: every telemetry GET and every control PUT carries a present
\* (non-empty) bearer token; none is sent with an absent token.
C1_BusinessRequestsCarryToken ==
    \A i \in 1..Len(reqs) :
        reqs[i].ep \in {"status", "power"} => Truthy(reqs[i].bearer)

C3_PowerAuthenticatesWhenNoToken ==
    During("set_production_power") =>
        /\ \A i \in 1..Len(reqs) : reqs[i].ep = "power" => i = Len(reqs)
        /\ ~Truthy(tokenAtStart) =>
               /\ authResult # "none"
               /\ Len(reqs) >= 1
               /\ reqs[1].ep \in {"info", "login"}
               /\ Issued("power") => authResult = "returned"
               /\ pc \in AuthAwaits <=> authResult = "running"
        /\ authResult = "raised" =>
               /\ ~Issued("power")
               /\ Idle
               /\ last.outcome = "raised"
        /\ Truthy(tokenAtStart) =>
               /\ authResult = "none"
               /\ \A i \in 1..Len(reqs) : reqs[i].ep \notin AuthEndpoints

C3_Witness ==
    /\ Idle
    /\ last.op = "set_production_power"
    /\ ~Truthy(tokenAtStart)
    /\ last.outcome = "returned"
    /\ authResult = "returned"
    /\ Len(reqs) >= 4
    /\ reqs[Len(reqs)].ep = "power"

\* C4: whenever authenticate() returns without raising, the session holds a
\* non-empty token.
C4_AuthReturnImpliesToken ==
    authResult = "returned" => Truthy(jwt_token)

\* C5: with a token cached by a successful authenticate, a later
\* get_production_status issues only the telemetry GET: no device-info,
\* login, token-exchange or token-check request.
C5_StatusOnlyIssuesTelemetry ==
    (During("get_production_status") /\ Truthy(tokenAtStart)) =>
        /\ Len(reqs) <= 1
        /\ \A i \in 1..Len(reqs) :
               reqs[i].ep = "status" /\ reqs[i].bearer = tokenAtStart
        /\ authResult = "none"

C5_Witness ==
    /\ Idle
    /\ last.op = "get_production_status"
    /\ Truthy(tokenAtStart)
    /\ last.outcome = "returned"
    /\ Len(reqs) = 1
    /\ reqs[1].ep = "status"

\* C6 as stated: a session that holds a token never starts the login
\* sequence again: no login POST is awaited while jwt_token is present.
C6_NoLoginWhileTokenCached ==
    pc = "await_login" => ~Truthy(jwt_token)

\* C6 amended: only set_production_power makes the login sequence depend on
\* the cached token (it starts it only when no token is cached);
\* authenticate() itself, and so every update cycle, starts the login
\* sequence whether or not a token is cached.
C6_LoginSequenceStarts ==
    /\ (op = "set_production_power" /\ pc \in AuthAwaits) => ~Truthy(jwt_token)
    /\ During("set_production_power") =>
           (Issued("login") => ~Truthy(tokenAtStart))
    /\ op \in {"authenticate", "update"} =>
           /\ Len(reqs) >= 1
           /\ reqs[1].ep \in {"info", "login"}

C6_Witness ==
    /\ op = "update"
    /\ pc = "await_login"
    /\ Truthy(jwt_token)

\* C7 as stated: over any sequence of update cycles the scheduler invokes
\* authenticate() once only.
C7_AuthenticateOnce ==
    authByCycles <= 1

\* C7 amended: every update cycle invokes authenticate() exactly once, as
\* its first step, and get_production_status() only after that call
\* returned.
C7_AuthenticateEveryCycle ==
    /\ authByCycles = cycles
    /\ op = "update" =>
           /\ authResult \in {"running", "returned"}
           /\ Len(reqs) >= 1
           /\ reqs[1].ep \in {"info", "login"}
           /\ pc = "await_status" <=> authResult = "returned"

C7_Witness ==
    /\ cycles >= 2
    /\ op = "update"
    /\ pc = "await_status"
    /\ Truthy(tokenAtStart)

\* C8: when the login endpoint answers anything but 302, or a 302 without a
\* `code`, authenticate() raises and neither the token-exchange nor the
\* token-check request is issued in that call.
C8_LoginFailureIsFatal ==
    \A i \in 1..Len(reqs) :
        (/\ reqs[i].ep = "login"
         /\ Answer(i)
         /\ ~(reqs[i].status = 302 /\ Truthy(reqs[i].note))) =>
            /\ i = Len(reqs)
            /\ authResult = "raised"
            /\ Idle
            /\ last.outcome = "raised"

C8_Witness ==
    /\ Idle
    /\ Len(reqs) >= 1
    /\ reqs[Len(reqs)].ep = "login"
    /\ reqs[Len(reqs)].status = 302
    /\ ~Truthy(reqs[Len(reqs)].note)
    /\ last.outcome = "raised"

\* C9: when the serial is unset and the device-info fetch gives a non-200
\* status or no serial match, authenticate() raises before any request goes
\* to the cloud login endpoint.
C9_SerialFailureIsFatal ==
    \A i \in 1..Len(reqs) :
        (/\ reqs[i].ep = "info"
         /\ Answer(i)
         /\ ~(reqs[i].status = 200 /\ Truthy(reqs[i].note))) =>
            /\ i = Len(reqs)
            /\ ~Issued("login")
            /\ authResult = "raised"
            /\ Idle
            /\ last.outcome = "raised"

C9_Witness ==
    /\ Idle
    /\ Len(reqs) = 1
    /\ reqs[1].ep = "info"
    /\ reqs[1].status = 200
    /\ reqs[1].note = None
    /\ last.outcome = "raised"

\* C10: in the token-exchange step a non-200 response, and a 200 response
\* with neither `access_token` nor `token` or with an unparseable body, is
\* fatal: authenticate() raises and no token is cached.
C10_TokenExchangeFailureIsFatal ==
    \A i \in 1..Len(reqs) :
        (/\ reqs[i].ep = "token"
         /\ Answer(i)
         /\ ~(reqs[i].status = 200 /\ Truthy(reqs[i].note)
              /\ reqs[i].note # "unparseable")) =>
            /\ authResult = "raised"
            /\ jwt_token = tokenAtStart


ValidBodies == {"Valid token", "<!DOCTYPE html>"}

\* the token-check request i was answered 200 with an accepted body
Validated(i) ==
    /\ reqs[i].ep = "check"
    /\ reqs[i].status = 200
    /\ reqs[i].note \in ValidBodies

\* C11: the token is cached only on a 200 token-check answer with the valid
\* marker or an HTML document; every other answer makes authenticate() raise.
C11_ValidationFailureIsFatal ==
    \A i \in 1..Len(reqs) :
        (reqs[i].ep = "check" /\ Answer(i)) =>
            IF Validated(i)
            THEN jwt_token = reqs[i].bearer
            ELSE authResult = "raised" /\ jwt_token = tokenAtStart

\* C12: after a successful authenticate() the cached token is the
\* `access_token` of the token endpoint's answer, or its `token` when
\* `access_token` is absent or empty, and never another value.
C12_CachedTokenIsEndpointToken ==
    LET expected == IF tokenBody.access_token \notin {None, ""}
                    THEN tokenBody.access_token
                    ELSE tokenBody.token
    IN  /\ \A i \in 1..Len(reqs) :
               Validated(i) => /\ tokenBody.some
                               /\ jwt_token = expected
                               /\ jwt_token \notin {None, ""}
        /\ jwt_token # tokenAtStart =>
               /\ tokenBody.some
               /\ jwt_token = expected
               /\ \E i \in 1..Len(reqs) : Validated(i)

C12_Witness ==
    /\ Idle
    /\ last.op = "authenticate"
    /\ last.outcome = "returned"
    /\ tokenBody.some
    /\ tokenBody.access_token = ""
    /\ jwt_token = "tok2"
    /\ tokenAtStart = "tok1"

\* C13 as stated: when authenticate() fails, the token and the serial number
\* are the same as before the call.
C13_FailedAuthKeepsState ==
    authResult = "raised" =>
        /\ jwt_token = tokenAtStart
        /\ serial_number = serialAtStart

\* C13 amended: when authenticate() fails, the token is the same as before
\* the call, and so is a serial number that was set before the call; a
\* serial number resolved from the device-info document during the failed
\* call is retained.
C13_FailedAuthKeepsTokenAndResolvedSerial ==
    authResult = "raised" =>
        /\ jwt_token = tokenAtStart
        /\ Truthy(serialAtStart) => serial_number = serialAtStart
        /\ ~Truthy(serialAtStart) =>
               /\ Len(reqs) >= 1
               /\ reqs[1].ep = "info"
               /\ serial_number =
                      IF reqs[1].status = 200 /\ Truthy(reqs[1].note)
                      THEN reqs[1].note
                      ELSE serialAtStart

C13_Witness ==
    /\ Idle
    /\ authResult = "raised"
    /\ ~Truthy(serialAtStart)
    /\ Truthy(serial_number)
    /\ Len(reqs) = 2
    /\ reqs[2].ep = "login"

\* C14: authenticate() creates a transport connection only when the session
\* has none and never replaces, closes or drops one, also when it fails:
\* as long as close() was not called at most one connection was created,
\* and every connection created and not closed is the one the session holds.
C14_ConnectionCreatedOnce ==
    /\ closed = 0 => /\ created <= 1
                     /\ created = 1 <=> session = "open"
    /\ created = closed + (IF session = "open" /\ pc # "await_close" THEN 1 ELSE 0)
    /\ (op \in {"authenticate", "update", "set_production_power"}
        \/ (Idle /\ last.op \in {"authenticate", "update", "set_production_power"}))
           => (sessionAtStart = "open" => session = "open")
    /\ authResult # "none" => session = "open"

C14_Witness ==
    /\ Idle
    /\ last.op = "authenticate"
    /\ last.outcome = "raised"
    /\ sessionAtStart = "open"
    /\ session = "open"
    /\ created = 1
    /\ closed = 0

\* C15: over any sequence of close() calls the transport connection is
\* closed exactly once if one was open, the session holds none afterwards,
\* and a further close() does nothing and does not raise.
C15_CloseOnce ==
    /\ closed <= created
    /\ pc = "await_close" => closed = created /\ session = "open"
    /\ (Idle /\ last.op = "close") =>
           /\ session = "none"
           /\ last.outcome = "returned"
           /\ closed = created
           /\ reqs = <<>>

C15_Witness ==
    /\ Idle
    /\ last.op = "close"
    /\ sessionAtStart = "none"
    /\ last.outcome = "returned"
    /\ closed = 1
    /\ created = 1

\* C16: the body of every control PUT carries the single array element 0
\* when `enabled` is true and 1 when it is false, whatever came before.
C16_PayloadIsInverseOfEnabled ==
    \A i \in 1..Len(reqs) :
        IF reqs[i].ep = "power"
        THEN /\ enabled => reqs[i].arr = 0
             /\ ~enabled => reqs[i].arr = 1
        ELSE reqs[i].arr = -1

C16_Witness ==
    /\ Idle
    /\ last.op = "set_production_power"
    /\ last.outcome = "returned"
    /\ ~enabled
    /\ reqs[Len(reqs)].ep = "power"
    /\ reqs[Len(reqs)].arr = 1
    /\ forcedOff

\* C17: set_production_power returns exactly when the control endpoint
\* answers 200, 201 or 204; any other status raises an error naming it.
C17_ControlStatusDecides ==
    (/\ Idle
     /\ last.op = "set_production_power"
     /\ Len(reqs) >= 1
     /\ reqs[Len(reqs)].ep = "power") =>
        LET status == reqs[Len(reqs)].status IN
        /\ last.outcome = "returned" <=> status \in {200, 201, 204}
        /\ last.outcome = "returned" => last.value = NoValue
        /\ (status \notin {200, 201, 204} /\ status # -1) =>
               /\ last.outcome = "raised"
               /\ last.err.status = status
               /\ last.err.msg = "Failed to set production power"

C17_Witness ==
    /\ Idle
    /\ last.op = "set_production_power"
    /\ Len(reqs) >= 1
    /\ reqs[Len(reqs)].ep = "power"
    /\ reqs[Len(reqs)].status = 201
    /\ last.outcome = "returned"

\* C18: on a 200 telemetry answer current_power is the wNow of the first
\* entry of the "production" list, and 0 when the list is absent or empty or
\* that entry has no wNow; is_producing holds exactly when current_power > 0;
\* later entries are ignored.
C18_SnapshotFromFirstEntry ==
    (Idle /\ last.op \in {"get_production_status", "update"}
          /\ last.outcome = "returned") =>
        LET list == telemetry.production
            first_has == telemetry.present /\ Len(list) >= 1 /\ list[1].has
        IN  /\ telemetry.parse
            /\ last.value.some
            /\ first_has => last.value.current_power = list[1].wNow
            /\ ~first_has => last.value.current_power = 0
            /\ last.value.is_producing <=> last.value.current_power > 0

C18_Witness ==
    /\ Idle
    /\ last.op = "get_production_status"
    /\ last.outcome = "returned"
    /\ Len(telemetry.production) = 2
    /\ telemetry.production[1].has
    /\ telemetry.production[2].has
    /\ telemetry.production[1].wNow = 0
    /\ telemetry.production[2].wNow = 5000
    /\ ~last.value.is_producing

C20_ProductionEnabledAlwaysTrue ==
    last.value.some => last.value.production_enabled

C20_Witness ==
    /\ Idle
    /\ last.value.some
    /\ forcedOff
    /\ ~last.value.is_producing
    /\ last.value.production_enabled

\* the last request of the call is the telemetry GET, answered with a
\* status other than 200
StatusRejected ==
    /\ Idle
    /\ last.op \in {"get_production_status", "update"}
    /\ Len(reqs) >= 1
    /\ LastOf(reqs).ep = "status"
    /\ LastOf(reqs).status \notin {200, -1}

\* C21 as stated: a non-200 answer to the telemetry GET makes
\* get_production_status raise an error that carries the status code and an
\* excerpt of the response body, and no snapshot is returned.
C21_StatusErrorCarriesExcerpt ==
    StatusRejected =>
        /\ last.outcome = "raised"
        /\ last.value = NoValue
        /\ last.err.status = LastOf(reqs).status
        /\ last.err.excerpt # NoText

\* C21 amended: a non-200 answer to the telemetry GET makes
\* get_production_status raise "Failed to get production status" with the
\* status code and nothing of the response body (the excerpt is only
\* logged), and no snapshot is returned.
C21_StatusErrorCarriesStatus ==
    StatusRejected =>
        /\ last.outcome = "raised"
        /\ last.value = NoValue
        /\ last.err.status = LastOf(reqs).status
        /\ last.err.excerpt = NoText
        /\ last.op = "get_production_status" =>
               /\ last.err.type = "Exception"
               /\ last.err.msg = "Failed to get production status"

C21_Witness ==
    /\ StatusRejected
    /\ last.op = "get_production_status"
    /\ LastOf(reqs).status = 500
    /\ last.err.status = 500
    /\ last.err.excerpt = NoText

BusinessOps == {"get_production_status", "set_production_power"}

\* C22: a telemetry GET or control PUT made with a cached token and answered
\* 401 makes the call raise at once: it is the call's only request, no
\* authenticate sequence is started, and the cached token stays as it was.
C22_RejectedCallFailsAtOnce ==
    (/\ op \in BusinessOps \/ (Idle /\ last.op \in BusinessOps)
     /\ Truthy(tokenAtStart)
     /\ Len(reqs) >= 1
     /\ reqs[1].status = 401) =>
        /\ Idle
        /\ Len(reqs) = 1
        /\ reqs[1].ep \in {"status", "power"}
        /\ reqs[1].bearer = tokenAtStart
        /\ last.outcome = "raised"
        /\ last.err.status = 401
        /\ authResult = "none"
        /\ jwt_token = tokenAtStart

C22_Witness ==
    /\ Idle
    /\ last.op = "get_production_status"
    /\ Truthy(tokenAtStart)
    /\ Len(reqs) = 1
    /\ reqs[1].status = 401
    /\ last.outcome = "raised"
    /\ jwt_token = tokenAtStart

ConfigOps == {"validate_input", "async_step_user"}

\* the number of requests of the call sent to endpoint ep
Count(ep) == Cardinality({i \in 1..Len(reqs) : reqs[i].ep = ep})

\* the config step was given input, so it ran validate_input
Validated_input ==
    last.op = "validate_input"
    \/ (last.op = "async_step_user" /\ authResult # "none")

\* C23: validate_input constructs one client, calls authenticate() once and
\* closes the client's connection exactly once, whether authenticate()
\* returned or raised; no connection is left open.
C23_ValidateClosesOnce ==
    /\ (op \in ConfigOps /\ pc \in AuthAwaits) =>
           /\ created = 1
           /\ closed = 0
           /\ authResult = "running"
           /\ Count("info") = 1
    /\ (op \in ConfigOps /\ pc = "await_close") =>
           /\ created = 1
           /\ closed = 1
           /\ authResult \in {"returned", "raised"}
    /\ (Idle /\ Validated_input) =>
           /\ created = 1
           /\ closed = 1
           /\ session = "none"
           /\ authResult \in {"returned", "raised"}
           /\ reqs[1].ep = "info"
           /\ Count("info") = 1
           /\ Count("login") <= 1
    /\ (Idle /\ last.op = "validate_input") =>
           (last.outcome = "returned" <=> authResult = "returned")

C23_Witness ==
    /\ Idle
    /\ last.op = "validate_input"
    /\ last.outcome = "raised"
    /\ authResult = "raised"
    /\ Count("login") = 1
    /\ closed = 1
    /\ session = "none"

\* C24: whatever authenticate() raises during validation, validate_input
\* raises CannotConnect and the config step shows the form with
\* "cannot_connect", never "unknown"; the config entry is created only when
\* authenticate() returned normally.
C24_FailuresAreCannotConnect ==
    /\ (Idle /\ last.op = "validate_input" /\ authResult = "raised") =>
           /\ last.outcome = "raised"
           /\ last.err.type = "CannotConnect"
    /\ (Idle /\ last.op = "async_step_user") =>
           /\ last.outcome = "returned"
           /\ last.value.errors # "unknown"
           /\ authResult = "raised" =>
                  /\ last.value.type = "form"
                  /\ last.value.errors = "cannot_connect"
           /\ last.value.type = "create_entry" <=> authResult = "returned"

C24_Witness ==
    /\ Idle
    /\ last.op = "async_step_user"
    /\ authResult = "raised"
    /\ LastOf(reqs).ep = "token"
    /\ LastOf(reqs).status = 400
    /\ last.value.errors = "cannot_connect"

\* the text of the error the code raises on the answer e
OriginalText(e) ==
    IF e.status = -1
    THEN IF e.ep \in AuthEndpoints
         THEN {"Cannot connect to Enphase servers", "Request timed out"}
         ELSE TransportErrors
    ELSE IF e.ep = "info"
    THEN {IF e.status = 200 THEN "Serial number not found"
          ELSE "Failed to get serial number"}
    ELSE IF e.ep = "login"
    THEN {IF e.status = 302 THEN "Authorization code not found in redirect"
          ELSE IF e.status = 200 THEN "Unexpected response"
          ELSE "Authentication failed"}
    ELSE IF e.ep = "token"
    THEN {"JWT token exchange failed"}
    ELSE {IF e.status = 200 THEN "json" ELSE "Failed to get production status"}

\* C25: an update cycle in which authenticate() or get_production_status()
\* raises ends with UpdateFailed whose message holds the text of that error,
\* and no other error leaves the cycle; when both return, the cycle returns
\* the snapshot of get_production_status as it is.
C25_CycleRaisesUpdateFailed ==
    (Idle /\ last.op = "update") =>
        /\ Len(reqs) >= 1
        /\ last.outcome \in {"raised", "returned"}
        /\ authResult = "raised" => last.outcome = "raised"
        /\ last.outcome = "raised" =>
               /\ last.err.type = "UpdateFailed"
               /\ last.err.msg = "Error communicating with API"
               /\ last.err.cause \in OriginalText(LastOf(reqs))
               /\ LastOf(reqs).status \notin {-1, 200, 302} =>
                      last.err.status = LastOf(reqs).status
               /\ last.value = NoValue
        /\ last.outcome = "returned" =>
               /\ authResult = "returned"
               /\ LastOf(reqs).ep = "status"
               /\ LastOf(reqs).status = 200
               /\ last.err = NoErr
               /\ last.value = Snapshot(telemetry)

C25_Witness ==
    /\ Idle
    /\ last.op = "update"
    /\ last.outcome = "raised"
    /\ authResult = "returned"
    /\ last.err.type = "UpdateFailed"
    /\ last.err.cause = "Failed to get production status"

SwitchOps == {"async_turn_on", "async_turn_off"}

\* C26: async_turn_on / async_turn_off call set_production_power(True) /
\* set_production_power(False) once and ask for a refresh only after it
\* returned; when set_production_power raises no refresh is asked for and
\* its error reaches the caller as it is; when the refresh raises, that
\* error reaches the caller although the PUT was accepted.
C26_CommandThenRefresh ==
    (op \in SwitchOps \/ (Idle /\ last.op \in SwitchOps)) =>
        LET o == IF Idle THEN last.op ELSE op
            n == Len(reqs)
        IN  /\ enabled = (o = "async_turn_on")
            /\ Count("power") <= 1
            /\ Count("refresh") <= 1
            /\ Count("login") <= 1
            /\ \A i \in 1..n :
                   reqs[i].ep = "power" => reqs[i].arr = (IF enabled THEN 0 ELSE 1)
            /\ \A i \in 1..n :
                   reqs[i].ep = "refresh" =>
                       /\ i = n
                       /\ i >= 2
                       /\ reqs[i - 1].ep = "power"
                       /\ reqs[i - 1].status \in {200, 201, 204}
            /\ pc = "await_refresh" <=>
                   (n >= 1 /\ reqs[n].ep = "refresh" /\ ~Answer(n))
            /\ Idle =>
                   /\ last.outcome = "returned" <=>
                          (n >= 1 /\ reqs[n].ep = "refresh" /\ reqs[n].status = 1)
                   /\ Count("refresh") = 0 =>
                          /\ last.outcome = "raised"
                          /\ last.err.msg # "Refresh failed"
                          /\ n = 0 => last.err = SessionNotInitialized
                          /\ (n >= 1 /\ reqs[n].ep = "power" /\ reqs[n].status # -1) =>
                                 /\ last.err.type = "Exception"
                                 /\ last.err.msg = "Failed to set production power"
                                 /\ last.err.status = reqs[n].status
                   /\ (Count("refresh") = 1 /\ reqs[n].status = -1) =>
                          /\ last.outcome = "raised"
                          /\ last.err.msg = "Refresh failed"
                          /\ Count("power") = 1

C26_Witness ==
    /\ Idle
    /\ last.op = "async_turn_off"
    /\ last.outcome = "raised"
    /\ last.err.msg = "Refresh failed"
    /\ Len(reqs) >= 2
    /\ reqs[Len(reqs) - 1].ep = "power"
    /\ reqs[Len(reqs) - 1].arr = 1
    /\ forcedOff

\* C27: after async_unload_entry returned successfully the connection of the
\* coordinator's client has been closed and the client holds none.
C27_UnloadClosesConnection ==
    (/\ Idle
     /\ last.op = "async_unload_entry"
     /\ last.outcome = "returned"
     /\ last.value.ok) =>
        /\ session = "none"
        /\ closed = created

\* C28: async_unload_entry returns True whenever the platform unload
\* succeeded, also when no coordinator is stored for the entry; it does not
\* raise.
C28_UnloadWithoutDataReturnsTrue ==
    (/\ Idle
     /\ last.op = "async_unload_entry"
     /\ LastOf(reqs).note = "True") =>
        /\ last.outcome = "returned"
        /\ last.value.ok

\* C29: async_unload_entry returns the result of the platform unload; the
\* coordinator is removed from the stored data when that result is True and
\* stays stored when it is False.
C29_UnloadRemovesOnSuccess ==
    [][pc = "await_unload" =>
           LET unload_ok == LastOf(reqs').note = "True" IN
           /\ last'.outcome = "returned"
           /\ last'.value.ok = unload_ok
           /\ stored' = (stored /\ ~unload_ok)]_vars

\* C30: async_setup_entry stores the coordinator and forwards the platform
\* setup only after the first refresh returned; when the first refresh
\* raises, async_setup_entry raises that error, no coordinator is stored and
\* no platform is set up.
C30_StoreAfterFirstRefresh ==
    /\ (op = "async_setup_entry" /\ pc # "await_forward") =>
           /\ ~stored
           /\ ~platforms
           /\ Count("forward_entry_setups") = 0
    /\ pc = "await_forward" =>
           /\ op = "async_setup_entry"
           /\ stored
           /\ ~platforms
           /\ authResult = "returned"
           /\ Len(reqs) >= 2
           /\ reqs[Len(reqs) - 1].ep = "status"
           /\ reqs[Len(reqs) - 1].status = 200
    /\ (Idle /\ last.op = "async_setup_entry") =>
           /\ last.outcome = "raised" =>
                  /\ ~stored
                  /\ ~platforms
                  /\ Count("forward_entry_setups") = 0
                  /\ last.err.type = "UpdateFailed"
                  /\ last.err.cause \in OriginalText(LastOf(reqs))
           /\ last.outcome = "returned" =>
                  /\ stored
                  /\ platforms
                  /\ last.value.ok
                  /\ Count("forward_entry_setups") = 1

C30_Witness ==
    /\ Idle
    /\ last.op = "async_setup_entry"
    /\ last.outcome = "raised"
    /\ authResult = "returned"
    /\ LastOf(reqs).ep = "status"
    /\ ~stored
    /\ ~platforms

\* C32: every update cycle calls authenticate() exactly once, as its first
\* step, and get_production_status() only after authenticate() returned;
\* when authenticate() raises, the cycle sends no telemetry GET.
C32_AuthenticateFirstInCycle ==
    (op = "update" \/ (Idle /\ last.op = "update")) =>
        /\ authResult \in {"running", "returned", "raised"}
        /\ Len(reqs) >= 1
        /\ reqs[1].ep \in {"info", "login"}
        /\ Count("info") <= 1
        /\ Count("login") <= 1
        /\ Count("status") <= 1
        /\ \A i \in 1..Len(reqs) :
               reqs[i].ep = "status" =>
                   /\ i = Len(reqs)
                   /\ i > 1
                   /\ authResult = "returned"
        /\ authResult = "returned" => Count("status") = 1
        /\ authResult = "raised" =>
               /\ Count("status") = 0
               /\ Idle
               /\ last.outcome = "raised"

C32_Witness ==
    /\ Idle
    /\ last.op = "update"
    /\ cycles >= 2
    /\ authResult = "raised"
    /\ Count("login") = 1
    /\ Count("status") = 0
    /\ last.err.type = "UpdateFailed"

\* the position of an endpoint in the login sequence
Rank(ep) ==
    IF ep = "info" THEN 1
    ELSE IF ep = "login" THEN 2
    ELSE IF ep = "token" THEN 3
    ELSE IF ep = "check" THEN 4
    ELSE 5

\* C33: within one call the requests of authenticate() go out in the order
\* device-info (only when the serial is unset), login, token exchange, token
\* check; each is sent at most once and only after the step before it
\* succeeded, and no request of any kind is sent twice within one call.
C33_FixedRequestOrder ==
    /\ \A i, j \in 1..Len(reqs) :
           i < j => /\ reqs[i].ep # reqs[j].ep
                    /\ Rank(reqs[i].ep) < Rank(reqs[j].ep)
    /\ authResult # "none" =>
           (Count("info") = 1 <=> ~Truthy(serialAtStart))
    /\ \A i \in 1..Len(reqs) :
           /\ reqs[i].ep = "login" =>
                  \/ i = 1
                  \/ /\ reqs[i - 1].ep = "info"
                     /\ reqs[i - 1].status = 200
                     /\ Truthy(reqs[i - 1].note)
           /\ reqs[i].ep = "token" =>
                  /\ i > 1
                  /\ reqs[i - 1].ep = "login"
                  /\ reqs[i - 1].status = 302
                  /\ Truthy(reqs[i - 1].note)
           /\ reqs[i].ep = "check" =>
                  /\ i > 1
                  /\ reqs[i - 1].ep = "token"
                  /\ reqs[i - 1].status = 200
                  /\ Truthy(reqs[i - 1].note)
                  /\ reqs[i].bearer = reqs[i - 1].note

C33_Witness ==
    /\ Idle
    /\ last.op = "authenticate"
    /\ last.outcome = "returned"
    /\ Len(reqs) = 4
    /\ reqs[1].ep = "info"
    /\ reqs[2].ep = "login"
    /\ reqs[3].ep = "token"
    /\ reqs[4].ep = "check"
    /\ Validated(4)

\* C34: the device-info document is fetched only by an authenticate() that
\* finds the serial unset: a serial given at construction or resolved by an
\* earlier call, also a failed one, is never fetched again nor overwritten.
C34_SerialFetchedOnlyWhenUnset ==
    (op # "none" \/ last.op # "none") =>
        /\ Truthy(serialAtStart) =>
               /\ serial_number = serialAtStart
               /\ Count("info") = 0
        /\ (authResult # "none" /\ ~Truthy(serialAtStart)) =>
               /\ Len(reqs) >= 1
               /\ reqs[1].ep = "info"
               /\ Count("info") = 1
        /\ authResult = "none" =>
               /\ Count("info") = 0
               /\ serial_number = serialAtStart

C34_Witness ==
    /\ Idle
    /\ last.op = "authenticate"
    /\ serialAtStart = "222"
    /\ ~Truthy(tokenAtStart)
    /\ serial_number = "222"
    /\ Len(reqs) >= 1
    /\ reqs[1].ep = "login"

\* the answer to request i is what the protocol promises
PerProtocol(i) ==
    LET e == reqs[i] IN
    IF e.ep = "info" THEN e.status = 200 /\ Truthy(e.note)
    ELSE IF e.ep = "login" THEN e.status = 302 /\ Truthy(e.note)
    ELSE IF e.ep = "token"
    THEN e.status = 200 /\ Truthy(e.note) /\ e.note # "unparseable"
    ELSE IF e.ep = "check" THEN e.status = 200 /\ e.note \in ValidBodies
    ELSE IF e.ep = "status" THEN e.status = 200 /\ e.note = "json"
    ELSE FALSE

\* C35: whatever failed before, an update cycle in which every endpoint
\* answers per protocol returns a snapshot: no earlier failure keeps a later
\* cycle from running the whole sequence.
C35_NoStickyFailure ==
    (/\ Idle
     /\ last.op = "update"
     /\ \A i \in 1..Len(reqs) : PerProtocol(i)) =>
        /\ last.outcome = "returned"
        /\ last.value.some
        /\ Len(reqs) >= 4
        /\ LastOf(reqs).ep = "status"
        /\ Truthy(jwt_token)
        /\ LastOf(reqs).bearer = jwt_token

\* a cycle that returned after the first cycle failed at the device-info step
C35_Witness ==
    /\ Idle
    /\ last.op = "update"
    /\ last.outcome = "returned"
    /\ cycles = 2
    /\ authByCycles = 2
    /\ sessionAtStart = "open"
    /\ ~Truthy(serialAtStart)
    /\ ~Truthy(tokenAtStart)
    /\ \A i \in 1..Len(reqs) : PerProtocol(i)
    /\ last.value.some

\* C36: jwt_token changes only when the token-check answer accepts the token
\* just obtained, and then to that token; nothing else (close(), a failed
\* authenticate(), a business call) changes it, and a cached token is never
\* cleared.
C36_TokenChangesAtValidationOnly ==
    [][/\ jwt_token' # jwt_token =>
              /\ pc = "await_check"
              /\ reqs'[Len(reqs)].status = 200
              /\ reqs'[Len(reqs)].note \in ValidBodies
              /\ jwt_token' = reqs[Len(reqs)].bearer
              /\ jwt_token' = token
       /\ Truthy(jwt_token) => Truthy(jwt_token')]_vars

\* a re-authentication that failed with a token cached
C36_Witness ==
    /\ Idle
    /\ last.op = "authenticate"
    /\ last.outcome = "raised"
    /\ Truthy(tokenAtStart)
    /\ jwt_token = tokenAtStart
    /\ Count("login") = 1

\* a request is in flight
InFlight == Len(reqs) >= 1 /\ ~Answer(Len(reqs))

\* C37: no request is sent while the session has no connection and only
\* authenticate() creates one: without a connection get_production_status()
\* raises and sends nothing, and set_production_power() with a cached token
\* raises, sends nothing and does not authenticate.
C37_NoRequestWithoutConnection ==
    /\ InFlight => session = "open"
    /\ pc # "idle" => session = "open"
    /\ (session = "open" /\ sessionAtStart = "none") => authResult # "none"
    /\ (During("get_production_status") /\ sessionAtStart = "none") =>
           /\ Idle
           /\ reqs = <<>>
           /\ last.outcome = "raised"
           /\ last.err = SessionNotInitialized
           /\ session = "none"
    /\ (/\ During("set_production_power")
        /\ sessionAtStart = "none"
        /\ Truthy(tokenAtStart)) =>
           /\ Idle
           /\ reqs = <<>>
           /\ authResult = "none"
           /\ last.outcome = "raised"
           /\ last.err = SessionNotInitialized
           /\ session = "none"

C37_Witness ==
    /\ Idle
    /\ last.op = "set_production_power"
    /\ sessionAtStart = "none"
    /\ Truthy(tokenAtStart)
    /\ closed >= 1
    /\ reqs = <<>>
    /\ last.err = SessionNotInitialized

\* C39: is_on is False while the coordinator has no data and True whenever
\* it holds a snapshot of get_production_status, also when the snapshot was
\* taken by a cycle that ran after the device accepted a power-off command.
C39_IsOnFollowsSnapshot ==
    /\ data = NoValue => is_on = FALSE
    /\ data # NoValue =>
           /\ data.some
           /\ is_on = TRUE
    /\ (Idle /\ last.op = "update" /\ last.outcome = "returned") =>
           /\ data = last.value
           /\ is_on = TRUE

\* the device was switched off and a later cycle returned a snapshot
C39_Witness ==
    /\ Idle
    /\ last.op = "update"
    /\ last.outcome = "returned"
    /\ forcedOff
    /\ ~enabled
    /\ data = last.value
    /\ ~data.is_producing
    /\ is_on = TRUE

\* two authenticate() calls in progress have each created a connection
\* although no close() was ever called: the later one replaced the earlier
ConnectionRace ==
    /\ closed = 0
    /\ created >= 2
    /\ \E t, u \in Tasks :
           /\ t # u
           /\ tasks[t].fn = "authenticate"
           /\ tasks[u].fn = "authenticate"
           /\ tasks[t].made
           /\ tasks[u].made

\* two authenticate() calls are in progress at once and close() was never
\* called
TwoAuthenticate ==
    /\ closed = 0
    /\ \E t, u \in Tasks :
           /\ t # u
           /\ tasks[t].fn = "authenticate"
           /\ tasks[u].fn = "authenticate"

\* C31 as stated: two concurrent authenticate() calls on a session that had
\* no connection get into the race in which both create a connection and
\* one of the two is replaced without being closed.
C31_ConnectionRaceReached == TwoAuthenticate ~> ConnectionRace

\* C31: concurrent authenticate() calls do not race for the connection: the
\* test of _session and the creation run without suspension, so as long as
\* close() was not called at most one connection was created, by one call,
\* and none was replaced.
C31_NoConnectionRace ==
    /\ closed = 0 =>
           /\ created <= 1
           /\ Len(closes) = created
           /\ \A t, u \in Tasks :
                  (tasks[t].made /\ tasks[u].made) => t = u
           /\ (\E t \in Tasks : tasks[t].fn = "authenticate") =>
                  session = "open"
    /\ ~ConnectionRace

\* two authenticate() calls in progress at once on a session that had no
\* connection: one of them created it, the other found it
C31_Witness ==
    /\ closed = 0
    /\ created = 1
    /\ session = "open"
    /\ \E t, u \in Tasks :
           /\ t # u
           /\ tasks[t].fn = "authenticate"
           /\ tasks[u].fn = "authenticate"
           /\ tasks[t].made
           /\ ~tasks[u].made

\* C38: however concurrent close() calls interleave, the close() of each
\* connection is called at most once.
C38_ConnectionClosedOnce ==
    \A i \in 1..Len(closes) : closes[i] <= 1

====
